---- MODULE Spec2Model ----
(***************************************************************************)
(* Model of domafic's web renderer (src/src/web_render.rs): the driver     *)
(* (run, handle_listener, update_system), the reconciler (add_node of      *)
(* WebWriter) and the JavaScript side it drives (the handle pool and the   *)
(* document).                                                              *)
(*                                                                         *)
(* The materialized tree (VDomNode) is kept flat: vdom maps the pool index *)
(* of a node's web_element to the node's fields, and a level is the        *)
(* sequence of the indices of its nodes.  Indices into levels and into     *)
(* host children are 0-based as in the source; TLA+ sequences are 1-based, *)
(* so index i of the source is position i+1 here.                          *)
(***************************************************************************)
EXTENDS Integers, Sequences, FiniteSets, TLC

VARIABLES
    rendered,   \* app_system.0: the rendered DomNode the driver keeps
    state,      \* app_system.3: the application state (the messages applied)
    vdom,       \* app_system.4: the materialized tree, by web_element index
    host,       \* the JavaScript side: __domafic_pool, __domafic_pool_free, document
    stack,      \* the call stack: update_system / add_node activations
    panic,      \* "no", or the reason the program stopped
    pass        \* bookkeeping of the pass in progress (or the last one)

vars == <<rendered, state, vdom, host, stack, panic, pass>>

(***************************************************************************)
(* Bounds of the model.                                                    *)
(***************************************************************************)
MaxMessages == 1      \* events the host delivers from its event loop
MaxNest == 1          \* update_system activations nested in a running one
MaxForeign == 1       \* children the target element holds before run
MaxRequests == 2      \* requests the updater issues through JsIo::http
MaxCalls == 3         \* calls of WebElement::insert and move_child on one parent

(***************************************************************************)
(* Sequences, with the source's 0-based indices.                           *)
(***************************************************************************)
At(s, i) == s[i + 1]

InsertAt(s, i, x) == SubSeq(s, 1, i) \o <<x>> \o SubSeq(s, i + 1, Len(s))

RemoveAt(s, i) == SubSeq(s, 1, i) \o SubSeq(s, i + 2, Len(s))

Front(s) == SubSeq(s, 1, Len(s) - 1)

Last(s) == s[Len(s)]

Range(s) == {s[i] : i \in 1..Len(s)}

Without(f, ks) == [x \in (DOMAIN f) \ ks |-> f[x]]

(***************************************************************************)
(* DomNode: the declarative node the renderer returns.                     *)
(*   value      <<"Tag", tag>> or <<"Text", content>>                      *)
(*   key        <<>> (None) or <<k>> (Some(k))                             *)
(*   attributes sequence of <<key, value>>                                 *)
(*   listeners  sequence of [ptr, ev]: the listener's address and the      *)
(*              event type it handles                                      *)
(*   children   sequence of DomNode                                        *)
(***************************************************************************)
Elem(tag, key, attrs, ls, kids) ==
    [value |-> <<"Tag", tag>>, key |-> key, attributes |-> attrs,
     listeners |-> ls, children |-> kids]

TextNode(text, key) ==
    [value |-> <<"Text", text>>, key |-> key, attributes |-> <<>>,
     listeners |-> <<>>, children |-> <<>>]

On(ptr, ev) == [ptr |-> ptr, ev |-> ev]

Str(s) == <<"Str", s>>

Bool(b) == <<"Bool", b>>

\* AttributeValue::as_str, as set_attribute hands the value to the host.
AsStr(v) == IF v[1] = "Bool" THEN (IF v[2] THEN "true" ELSE "false") ELSE v[2]

\* Keys::push: a new key path, the receiver left as it was.
KeysPush(keys, k) == Append(keys, k)

(***************************************************************************)
(* The JavaScript side.  host is                                           *)
(*   pool   __domafic_pool: slot i of the source is pool[i+1], one of      *)
(*          "elem", "callback", "deleted"                                  *)
(*   free   __domafic_pool_free                                            *)
(*   dom    the elements, by the pool index they were created under:       *)
(*          [value, children, props, listeners]                            *)
(*   calls  the host mutation calls made since the pass began              *)
(*   xhr    the XMLHttpRequests JsIoImpl::http made, in order:              *)
(*          [request, sent, timeout, done, results]                        *)
(***************************************************************************)
RootId == 0

Call(op, el, arg) == [op |-> op, el |-> el, arg |-> arg]

Log(h, c) == [h EXCEPT !.calls = Append(@, c)]

\* var index = __domafic_pool_free.pop();
\* if (index) { __domafic_pool[index] = x; return index; }
\* return __domafic_pool.push(x) - 1;
PoolAlloc(h, x) ==
    LET n == Len(h.free)
        popped == IF n > 0 THEN Front(h.free) ELSE h.free
    IN  IF n > 0 /\ h.free[n] # 0
        THEN [h  |-> [h EXCEPT !.free = popped, !.pool[h.free[n] + 1] = x],
              id |-> h.free[n]]
        ELSE [h  |-> [h EXCEPT !.free = popped, !.pool = Append(@, x)],
              id |-> Len(h.pool)]

\* Drop for WebElement: delete __domafic_pool[$0]; __domafic_pool_free.push($0)
PoolDrop(h, id) ==
    [h EXCEPT !.pool[id + 1] = "deleted", !.free = Append(@, id)]

NewElement(value) ==
    [value |-> value, children |-> <<>>, props |-> {}, listeners |-> <<>>]

\* WebDocument::create_element / create_text_node
create_node(h, value) ==
    LET a == PoolAlloc(h, "elem")
    IN  [h  |-> Log([a.h EXCEPT !.dom = (a.id :> NewElement(value)) @@ @],
                    Call(IF value[1] = "Tag" THEN "createElement" ELSE "createText",
                         a.id, value)),
         id |-> a.id]

\* WebElement::insert
insert_ok(h, parent, index) == index <= Len(h.dom[parent].children)

insert(h, parent, index, child) ==
    Log([h EXCEPT !.dom[parent].children = InsertAt(@, index, child)],
        Call("insertChild", parent, <<index, child>>))

\* WebElement::move_child: "oob" is the -1 the script returns, "exception" the
\* TypeError of insertBefore(undefined, ...) when old_index = children.length.
move_child_result(h, parent, old_index, new_index) ==
    LET n == Len(h.dom[parent].children)
    IN  IF old_index > n \/ new_index > n THEN "oob"
        ELSE IF old_index = n THEN "exception"
        ELSE "ok"

move_child(h, parent, old_index, new_index) ==
    LET kids == h.dom[parent].children
        element == At(kids, old_index)
        rest == RemoveAt(kids, old_index)
        moved ==
            IF new_index = Len(kids) THEN Append(rest, element)
            ELSE IF At(kids, new_index) = element THEN kids
            ELSE LET ref == At(kids, new_index)
                     j == CHOOSE j \in 0..(Len(rest) - 1) : At(rest, j) = ref
                 IN  InsertAt(rest, j, element)
    IN  Log([h EXCEPT !.dom[parent].children = moved],
            Call("moveChild", parent, <<old_index, new_index>>))

\* Faulty variant of set_listener: the callback is given an empty key path.
set_listener_without_keys(h, el, l, keys) ==
    LET a == PoolAlloc(h, "callback")
        cb == [cb |-> a.id, ev |-> l.ev, ptr |-> l.ptr, keys |-> <<>>]
    IN  [h  |-> Log([a.h EXCEPT !.dom[el].listeners = Append(@, cb)],
                    Call("attachListener", el, cb)),
         id |-> a.id]

\* WebElement::set_listener: the callback closes over the listener's address
\* and the key path; the returned WebElement is the callback's pool slot.
set_listener(h, el, l, keys) ==
    LET a == PoolAlloc(h, "callback")
        cb == [cb |-> a.id, ev |-> l.ev, ptr |-> l.ptr, keys |-> keys]
    IN  [h  |-> Log([a.h EXCEPT !.dom[el].listeners = Append(@, cb)],
                    Call("attachListener", el, cb)),
         id |-> a.id]

\* WebElement::remove_listener
remove_listener(h, el, ev, cb) ==
    LET keep(x) == ~(x.cb = cb /\ x.ev = ev)
    IN  Log([h EXCEPT !.dom[el].listeners = SelectSeq(@, keep)],
            Call("detachListener", el, <<ev, cb>>))

\* WebElement::set_attribute: elem[key] = value.as_str()
set_attribute(h, el, kv) ==
    Log([h EXCEPT !.dom[el].props =
                      {p \in @ : p[1] # kv[1]} \cup {<<kv[1], AsStr(kv[2])>>}],
        Call("setAttribute", el, kv))

\* WebElement::remove_self
remove_self(h, el) ==
    LET hasIt(e) == \E i \in 1..Len(h.dom[e].children) : h.dom[e].children[i] = el
        notIt(x) == x # el
    IN  Log([h EXCEPT !.dom = [e \in DOMAIN @ |->
                                  IF hasIt(e)
                                  THEN [@[e] EXCEPT !.children = SelectSeq(@, notIt)]
                                  ELSE @[e]]],
            Call("removeChild", el, <<>>))

\* WebElement::remove_all_children
remove_all_children(h, el) ==
    LET RECURSIVE below(_)
        below(e) == {e} \cup UNION {below(c) : c \in Range(h.dom[e].children)}
        gone == below(el) \ {el}
    IN  [h EXCEPT !.dom = [Without(@, gone) EXCEPT ![el].children = <<>>]]

(***************************************************************************)
(* The Rust side.  A VDomNode is                                           *)
(*   [value, keys, attributes, listeners, children]                        *)
(* with listeners a sequence of [el, ptr, ev] (the callback's WebElement,  *)
(* the listener's address, the event type) and children the level below.   *)
(***************************************************************************)
VDomNode(value, keys, attrs, ls, kids) ==
    [value |-> value, keys |-> keys, attributes |-> attrs, listeners |-> ls,
     children |-> kids]

\* Dropping a VDomNode drops its fields in declaration order: web_element,
\* the listeners' WebElements, then the children.  The element left the
\* document with remove_self and nothing refers to it any more.
RECURSIVE drop_vnode(_, _, _)
RECURSIVE drop_level(_, _, _)
RECURSIVE drop_listeners(_, _)

drop_listeners(h, ls) ==
    IF ls = <<>> THEN h ELSE drop_listeners(PoolDrop(h, Head(ls).el), Tail(ls))

drop_level(h, vd, ids) ==
    IF ids = <<>> THEN [h |-> h, vdom |-> vd]
    ELSE LET r == drop_vnode(h, vd, Head(ids))
         IN  drop_level(r.h, r.vdom, Tail(ids))

drop_vnode(h, vd, id) ==
    LET h1 == drop_listeners(PoolDrop(h, id), vd[id].listeners)
    IN  drop_level([h1 EXCEPT !.dom = Without(@, {id})], Without(vd, {id}),
                   vd[id].children)

\* add_node, lines 970-987: the first entry at or after node_index whose keys
\* and value equal the new node's; <<>> is None, <<i>> is Some(i).
RECURSIVE scan(_, _, _, _, _)
scan(vd, level, trial_index, keys, value) ==
    IF trial_index >= Len(level) THEN <<>>
    ELSE IF vd[At(level, trial_index)].keys = keys
            /\ vd[At(level, trial_index)].value = value
         THEN <<trial_index>>
         ELSE scan(vd, level, trial_index + 1, keys, value)

\* Faulty variant of find_match: the scan starts at the front of the level.
find_match_from_front(vd, level, node_index, keys, value) ==
    scan(vd, level, 0, keys, value)

\* Faulty variant of find_match: the last equal entry at or after the cursor.
find_match_last(vd, level, node_index, keys, value) ==
    LET equal == {j \in node_index..(Len(level) - 1) :
                     vd[At(level, j)].keys = keys /\ vd[At(level, j)].value = value}
    IN  IF equal = {} THEN <<>>
        ELSE <<CHOOSE j \in equal : \A k \in equal : k <= j>>

\* Faulty variant of find_match: nothing ever matches.
find_match_none(vd, level, node_index, keys, value) == <<>>

\* Faulty variant of find_match: the scan starts one past the cursor.
find_match_past_cursor(vd, level, node_index, keys, value) ==
    scan(vd, level, node_index + 1, keys, value)

find_match(vd, level, node_index, keys, value) ==
    scan(vd, level, node_index, keys, value)

\* Faulty variant of remove_excess_listeners: an attached listener is kept
\* when a declared one handles its event type, whatever its address.
RECURSIVE remove_excess_listeners_by_event(_, _, _, _, _)
remove_excess_listeners_by_event(h, el, vls, listeners, i) ==
    IF i >= Len(vls) THEN [h |-> h, listeners |-> vls]
    ELSE LET old == At(vls, i)
         IN  IF ~\E l \in Range(listeners) : old.ev = l.ev
             THEN remove_excess_listeners_by_event(
                      PoolDrop(remove_listener(h, el, old.ev, old.el), old.el),
                      el, RemoveAt(vls, i), listeners, i)
             ELSE remove_excess_listeners_by_event(h, el, vls, listeners, i + 1)

\* add_node, lines 996-1020: remove excess listeners.
RECURSIVE remove_excess_listeners(_, _, _, _, _)
remove_excess_listeners(h, el, vls, listeners, i) ==
    IF i >= Len(vls) THEN [h |-> h, listeners |-> vls]
    ELSE LET old == At(vls, i)
         IN  IF ~\E l \in Range(listeners) : old.ptr = l.ptr /\ old.ev = l.ev
             THEN remove_excess_listeners(
                      PoolDrop(remove_listener(h, el, old.ev, old.el), old.el),
                      el, RemoveAt(vls, i), listeners, i)
             ELSE remove_excess_listeners(h, el, vls, listeners, i + 1)

\* add_node, lines 1022-1039: add new listeners (j is the position in listeners).
RECURSIVE add_new_listeners(_, _, _, _, _, _)
add_new_listeners(h, el, vls, listeners, keys, j) ==
    IF j > Len(listeners) THEN [h |-> h, listeners |-> vls]
    ELSE LET l == listeners[j]
         IN  IF ~\E x \in Range(vls) : x.ptr = l.ptr /\ x.ev = l.ev
             THEN LET r == set_listener(h, el, l, keys)
                  IN  add_new_listeners(
                          r.h, el,
                          Append(vls, [el |-> r.id, ptr |-> l.ptr, ev |-> l.ev]),
                          listeners, keys, j + 1)
             ELSE add_new_listeners(h, el, vls, listeners, keys, j + 1)

\* Faulty variant of remove_excess_attributes: an old attribute is kept when its key is still declared.
remove_excess_attributes_by_key(vattrs, attributes) ==
    LET kept(old) == \E attr \in Range(attributes) : attr[1] = old[1]
    IN  SelectSeq(vattrs, kept)

\* add_node, lines 1041-1061: remove excess attributes (the host call is
\* commented out in the source: only the retained Vec changes).
remove_excess_attributes(vattrs, attributes) ==
    LET kept(old) == \E attr \in Range(attributes) : attr = old
    IN  SelectSeq(vattrs, kept)

\* add_node, lines 1063-1069: add new attributes.
RECURSIVE add_new_attributes(_, _, _, _, _)
add_new_attributes(h, el, vattrs, attributes, j) ==
    IF j > Len(attributes) THEN [h |-> h, attributes |-> vattrs]
    ELSE IF ~\E x \in Range(vattrs) : x = attributes[j]
         THEN add_new_attributes(set_attribute(h, el, attributes[j]), el,
                                 Append(vattrs, attributes[j]), attributes, j + 1)
         ELSE add_new_attributes(h, el, vattrs, attributes, j + 1)

\* add_node, lines 1107-1119: a new element gets every listener.
RECURSIVE set_all_listeners(_, _, _, _, _, _)
set_all_listeners(h, el, acc, listeners, keys, j) ==
    IF j > Len(listeners) THEN [h |-> h, listeners |-> acc]
    ELSE LET r == set_listener(h, el, listeners[j], keys)
         IN  set_all_listeners(
                 r.h, el,
                 Append(acc, [el |-> r.id, ptr |-> listeners[j].ptr,
                              ev |-> listeners[j].ev]),
                 listeners, keys, j + 1)

\* add_node, lines 1121-1125: a new element gets every attribute.
RECURSIVE set_all_attributes(_, _, _, _, _)
set_all_attributes(h, el, acc, attributes, j) ==
    IF j > Len(attributes) THEN [h |-> h, attributes |-> acc]
    ELSE set_all_attributes(set_attribute(h, el, attributes[j]), el,
                            Append(acc, attributes[j]), attributes, j + 1)

\* Faulty variant of remove_leftover: the element at the cursor is left.
RECURSIVE remove_leftover_past_cursor(_, _, _, _)
remove_leftover_past_cursor(h, vd, vid, child_node_index) ==
    IF child_node_index + 1 >= Len(vd[vid].children) THEN [h |-> h, vdom |-> vd]
    ELSE LET unused == Last(vd[vid].children)
             popped == [vd EXCEPT ![vid].children = Front(@)]
             r == drop_vnode(remove_self(h, unused), popped, unused)
         IN  remove_leftover_past_cursor(r.h, r.vdom, vid, child_node_index)

\* Faulty variant of remove_leftover: the leftovers are taken from the front of the level.
RECURSIVE remove_leftover_front(_, _, _, _)
remove_leftover_front(h, vd, vid, child_node_index) ==
    IF child_node_index >= Len(vd[vid].children) THEN [h |-> h, vdom |-> vd]
    ELSE LET unused == Head(vd[vid].children)
             popped == [vd EXCEPT ![vid].children = Tail(@)]
             r == drop_vnode(remove_self(h, unused), popped, unused)
         IN  remove_leftover_front(r.h, r.vdom, vid, child_node_index)

\* add_node, lines 1084-1088 and 1148-1152: remove the elements left over.
RECURSIVE remove_leftover(_, _, _, _)
remove_leftover(h, vd, vid, child_node_index) ==
    IF child_node_index >= Len(vd[vid].children) THEN [h |-> h, vdom |-> vd]
    ELSE LET unused == Last(vd[vid].children)
             popped == [vd EXCEPT ![vid].children = Front(@)]
             r == drop_vnode(remove_self(h, unused), popped, unused)
         IN  remove_leftover(r.h, r.vdom, vid, child_node_index)

(***************************************************************************)
(* JsIoImpl::http.  An HttpRequest is [openable, timeout_millis]: whether   *)
(* XMLHttpRequest.open accepts its method and url, and the optional timeout *)
(* (<<>> is None, <<t>> is Some(t)).                                        *)
(***************************************************************************)
HttpRequest(openable, timeout_millis) ==
    [openable |-> openable, timeout_millis |-> timeout_millis]

\* Lines 256-285 with the arguments of lines 287-300.  When open throws, the
\* script builds error_fn(3), calls nothing and returns: the request is never
\* sent.  xhr.timeout is set when timeout_millis.unwrap_or(0) is not 0.
http(h, http_request) ==
    LET timeout == IF http_request.timeout_millis = <<>> THEN 0
                   ELSE http_request.timeout_millis[1]
    IN  [h EXCEPT !.xhr =
            Append(@, [request |-> http_request,
                       sent    |-> http_request.openable,
                       timeout |-> IF http_request.openable THEN timeout ELSE 0,
                       done    |-> FALSE,
                       results |-> <<>>])]

\* The requests one call of the updater issues, in order.
RECURSIVE http_all(_, _)
http_all(h, reqs) ==
    IF reqs = <<>> THEN h ELSE http_all(http(h, Head(reqs)), Tail(reqs))

\* handle_http_result, lines 329-352: the result the handler is given.
HttpResult(error_sig) ==
    CASE error_sig = 0 -> "Ok"
      [] error_sig = 1 -> "Timeout"
      [] error_sig = 2 -> "NetworkError"

(***************************************************************************)
(* The trees the renderer may return.  The application (state, updater,    *)
(* renderer) is the caller's: any tree of Rendered may follow any other.   *)
(* A listener's identity is its address in the rendered tree: an item of a *)
(* Vec keeps it only while it keeps its position.                          *)
(***************************************************************************)
ItemKeys == {1, 2, 3}

SyncEvents == {"DOMNodeInserted"}

RootListeners == <<On(1, "click")>>

App(attrs, kids) == Elem("div", <<>>, attrs, RootListeners, kids)

InjectiveSeqs(S) ==
    UNION {{q \in [1..n -> S] : \A i, j \in 1..n : i # j => q[i] # q[j]} :
           n \in 0..Cardinality(S)}

SeqsUpTo(S, n) == UNION {[1..m -> S] : m \in 0..n}

\* Keyed items.  The listener's address goes with the key (the item lives
\* where its key says), with the position (an array of items), or with the
\* position in a buffer that is allocated anew when the length changes (a Vec
\* of items, as in examples/todo_mvc.rs).
Item(k, ptr) == Elem("li", <<k>>, <<>>, <<On(ptr, "click")>>, <<>>)

AddressModes == {"key", "position", "vec"}

Address(mode, q, i) ==
    CASE mode = "key" -> 10 + q[i]
      [] mode = "position" -> 20 + i
      [] mode = "vec" -> 30 + 10 * Len(q) + i

KeyedLists ==
    {App(<<>>, [i \in 1..Len(q) |-> Item(q[i], Address(mode, q, i))]) :
        q \in InjectiveSeqs(ItemKeys), mode \in AddressModes}

\* Unkeyed siblings: equal variants (differing in attributes or listeners),
\* different variants, text.
UnkeyedItems ==
    {Elem("li", <<>>, <<>>, <<>>, <<>>),
     Elem("li", <<>>, <<<<"a", Str("1")>>>>, <<>>, <<>>),
     Elem("li", <<>>, <<>>, <<On(5, "click")>>, <<>>),
     Elem("span", <<>>, <<>>, <<>>, <<>>),
     TextNode("x", <<>>)}

UnkeyedLists == {App(<<>>, q) : q \in SeqsUpTo(UnkeyedItems, 2)}

\* A keyed element and a keyed text at the same key path.
VariantLists ==
    {App(<<>>, <<c>>) : c \in {TextNode("x", <<1>>), TextNode("y", <<1>>),
                                Elem("span", <<1>>, <<>>, <<>>, <<>>)}}

\* Other root nodes: another variant, another key.
RootVariants ==
    {TextNode("x", <<>>),
     Elem("span", <<>>, <<>>, RootListeners, <<>>),
     Elem("div", <<1>>, <<>>, RootListeners, <<>>)}

\* Attribute sequences, unique by key.
AttrPairs == {<<"a", Str("1")>>, <<"a", Str("2")>>, <<"b", Bool(TRUE)>>}

AttrSeqs == {q \in InjectiveSeqs(AttrPairs) :
                \A i, j \in 1..Len(q) : i # j => q[i][1] # q[j][1]}

AttrTrees == {App(q, <<>>) : q \in AttrSeqs}

\* Listener sequences on a child: addresses 2 and 3, two event types.
ListenerSeqs ==
    {<<>>, <<On(2, "input")>>, <<On(3, "input")>>, <<On(2, "keydown")>>,
     <<On(2, "input"), On(3, "input")>>, <<On(3, "input"), On(2, "input")>>,
     <<On(2, "keydown"), On(3, "input")>>, <<On(3, "input"), On(2, "keydown")>>}

ListenerTrees ==
    {App(<<>>, <<Elem("input", <<>>, <<>>, ls, <<>>)>>) : ls \in ListenerSeqs}

\* Two parents, a keyed grandchild under either.
Grand == Elem("b", <<7>>, <<>>, <<>>, <<>>)

ParentTrees ==
    {App(<<>>, <<Elem("ul", <<>>, <<>>, <<>>, g1), Elem("ol", <<>>, <<>>, <<>>, g2)>>) :
        g1 \in {<<>>, <<Grand>>}, g2 \in {<<>>, <<Grand>>}}

\* A root listening to a mutation event, which the host dispatches inside the
\* mutating call.
SyncTrees ==
    {Elem("div", <<>>, <<>>, <<On(1, "click"), On(4, "DOMNodeInserted")>>, kids) :
        kids \in {<<>>, <<Item(1, 11)>>}}

\* A keyed root over keyed items and an unkeyed parent of a keyed grandchild.
KeyPathTrees ==
    {Elem("div", <<5>>, <<<<"a", Str("1")>>>>, RootListeners,
          <<Item(1, 11), Elem("ul", <<>>, <<>>, <<>>, <<Grand>>), Item(2, 12)>>)}

Rendered ==
    KeyedLists \cup UnkeyedLists \cup VariantLists \cup RootVariants
        \cup AttrTrees \cup ListenerTrees \cup ParentTrees \cup SyncTrees
        \cup KeyPathTrees

(***************************************************************************)
(* The state before run: the target element in the document, holding some  *)
(* children of its own, and no pool.                                       *)
(***************************************************************************)
Foreign(n) == [i \in 1..n |-> 0 - i]

Init ==
    /\ rendered = <<>>
    /\ state = <<>>
    /\ vdom = <<>>
    /\ \E n \in 0..MaxForeign :
          host = [pool |-> <<>>, free |-> <<>>, calls |-> <<>>, xhr |-> <<>>,
                  dom |-> (RootId :> [NewElement(<<"Tag", "body">>)
                                         EXCEPT !.children = Foreign(n)])
                          @@ [e \in Range(Foreign(n)) |->
                                 NewElement(<<"Tag", "foreign">>)]]
    /\ stack = <<>>
    /\ panic = "no"
    /\ pass = [n |-> 0, prev |-> <<>>, pre |-> <<>>, reused |-> {}]

Top == stack[Len(stack)]

\* The WebWriterAcc of a level, with process_all's position in the siblings.
Level(nodes, parent, keys) ==
    [kind |-> "level", nodes |-> nodes, i |-> 1, parent |-> parent,
     node_index |-> 0, keys |-> keys]

\* The pass begins: the bookkeeping of the claims.
BeginPass(vd, prev) ==
    [n |-> pass.n + 1, prev |-> prev, pre |-> vd, reused |-> {}]

\* run, lines 64-110, for a renderer returning a tree of trees.
Run(trees) ==
    /\ pass.n = 0
    /\ \E d \in trees :
          LET a == PoolAlloc(host, "elem")
              h == remove_all_children(a.h, a.id)
              root == VDomNode(<<"Tag", "N/A - root">>, <<>>, <<>>, <<>>, <<>>)
          IN  /\ rendered' = d
              /\ host' = h
              /\ vdom' = (a.id :> root)
              /\ stack' = <<[kind |-> "run"], Level(<<d>>, a.id, <<>>)>>
              /\ pass' = BeginPass(vdom', <<>>)
    /\ UNCHANGED <<state, panic>>

run == Run(Rendered)

(***************************************************************************)
(* add_node up to the recursion into the children (lines 953-1082 on a     *)
(* match, 953-987 and 1098-1146 otherwise).  The activation stays on the   *)
(* stack as a "node" frame under the children's level.                     *)
(***************************************************************************)
\* Faulty variant of node_keys: the node's own key is not pushed.
node_keys_of_parent(acc_keys, node) == acc_keys

node_keys(acc_keys, node) ==
    IF node.key # <<>> THEN KeysPush(acc_keys, node.key[1]) ELSE acc_keys

NodeFrame(node, vid, m) ==
    [kind |-> "node", node |-> node, vnode |-> vid, vnode_index |-> m,
     pc |-> "children"]

\* Lines 989-1082: modify the existing element.
reuse_node(h, vd, vid, node, keys) ==
    LET r1 == remove_excess_listeners(h, vid, vd[vid].listeners, node.listeners, 0)
        r2 == add_new_listeners(r1.h, vid, r1.listeners, node.listeners, keys, 1)
        a1 == remove_excess_attributes(vd[vid].attributes, node.attributes)
        r3 == add_new_attributes(r2.h, vid, a1, node.attributes, 1)
    IN  [h    |-> r3.h,
         vdom |-> [vd EXCEPT ![vid].listeners = r2.listeners,
                             ![vid].attributes = r3.attributes],
         id   |-> vid]

\* Faulty variant of create_vnode: a live node of the same key path and value,
\* wherever it is in the materialized tree, is taken instead of a new one.
create_vnode_adopting(h, vd, node, keys) ==
    LET same == {id \in (DOMAIN vd) \ {RootId} :
                    vd[id].keys = keys /\ vd[id].value = node.value}
        c  == create_node(h, node.value)
        r1 == set_all_listeners(c.h, c.id, <<>>, node.listeners, keys, 1)
        r2 == set_all_attributes(r1.h, c.id, <<>>, node.attributes, 1)
    IN  IF same # {}
        THEN [h |-> h, vdom |-> vd, id |-> CHOOSE id \in same : TRUE]
        ELSE [h    |-> r2.h,
              vdom |-> (c.id :> VDomNode(node.value, keys, r2.attributes,
                                         r1.listeners, <<>>)) @@ vd,
              id   |-> c.id]

\* Faulty variant of create_vnode: the attributes are recorded but not set.
create_vnode_without_attributes(h, vd, node, keys) ==
    LET c  == create_node(h, node.value)
        r1 == set_all_listeners(c.h, c.id, <<>>, node.listeners, keys, 1)
    IN  [h    |-> r1.h,
         vdom |-> (c.id :> VDomNode(node.value, keys, node.attributes,
                                    r1.listeners, <<>>)) @@ vd,
         id   |-> c.id]

\* Lines 1098-1134: construct as a new element.
create_vnode(h, vd, node, keys) ==
    LET c  == create_node(h, node.value)
        r1 == set_all_listeners(c.h, c.id, <<>>, node.listeners, keys, 1)
        r2 == set_all_attributes(r1.h, c.id, <<>>, node.attributes, 1)
    IN  [h    |-> r2.h,
         vdom |-> (c.id :> VDomNode(node.value, keys, r2.attributes,
                                    r1.listeners, <<>>)) @@ vd,
         id   |-> c.id]

add_node_begin ==
    /\ panic = "no"
    /\ stack # <<>>
    /\ Top.kind = "level"
    /\ Top.i <= Len(Top.nodes)
    /\ LET acc  == Top
           node == acc.nodes[acc.i]
           keys == node_keys(acc.keys, node)
           m    == find_match(vdom, vdom[acc.parent].children, acc.node_index,
                              keys, node.value)
           r    == IF m # <<>>
                   THEN reuse_node(host, vdom, At(vdom[acc.parent].children, m[1]),
                                   node, keys)
                   ELSE create_vnode(host, vdom, node, keys)
       IN  /\ host' = r.h
           /\ vdom' = r.vdom
           /\ stack' = stack \o <<NodeFrame(node, r.id, m),
                                  Level(node.children, r.id, keys)>>
           /\ pass' = IF m # <<>>
                      THEN [pass EXCEPT !.reused = @ \cup {r.id}]
                      ELSE pass
    /\ UNCHANGED <<rendered, state, panic>>

(***************************************************************************)
(* add_node after the children (lines 1084-1096 on a match, 1148-1155      *)
(* otherwise, then 1158): the leftovers of the children's level, the move  *)
(* or the insertion, the cursor.                                           *)
(***************************************************************************)
\* Faulty variant of relocate: the host element moves, the level is left as it was.
relocate_host_only(h, vd, parent, vnode_index, node_index) ==
    [h    |-> move_child(h, parent, vnode_index, node_index),
     vdom |-> vd]

\* Lines 1091-1096: the host move, then the splice of the level.
relocate(h, vd, parent, vnode_index, node_index) ==
    LET old_vnode == At(vd[parent].children, vnode_index)
    IN  [h    |-> move_child(h, parent, vnode_index, node_index),
         vdom |-> [vd EXCEPT ![parent].children =
                                 InsertAt(RemoveAt(@, vnode_index), node_index,
                                          old_vnode)]]

\* Faulty variant of place: the new node goes to the front of the level.
place_at_front(h, vd, parent, node_index, vid) ==
    [h    |-> insert(h, parent, node_index, vid),
     vdom |-> [vd EXCEPT ![parent].children = InsertAt(@, 0, vid)]]

\* Lines 1154-1155: the host insertion, then the insertion into the level.
place(h, vd, parent, node_index, vid) ==
    [h    |-> insert(h, parent, node_index, vid),
     vdom |-> [vd EXCEPT ![parent].children = InsertAt(@, node_index, vid)]]

\* What the host call of this activation answers.
end_result(h, acc, fr) ==
    IF fr.vnode_index # <<>>
    THEN IF acc.node_index # fr.vnode_index[1]
         THEN move_child_result(h, acc.parent, fr.vnode_index[1], acc.node_index)
         ELSE "ok"
    ELSE IF insert_ok(h, acc.parent, acc.node_index) THEN "ok" ELSE "oob"

finish_node(h, vd, acc, fr) ==
    IF fr.vnode_index # <<>>
    THEN IF acc.node_index # fr.vnode_index[1]
         THEN relocate(h, vd, acc.parent, fr.vnode_index[1], acc.node_index)
         ELSE [h |-> h, vdom |-> vd]
    ELSE place(h, vd, acc.parent, acc.node_index, fr.vnode)

\* Faulty variant of Advance: the cursor skips a position.
advance_by_two(acc) == [acc EXCEPT !.node_index = @ + 2, !.i = @ + 1]

\* Faulty variant of Advance: the cursor stays where it was.
advance_sibling_only(acc) == [acc EXCEPT !.i = @ + 1]

\* Line 1158, and process_all going on to the next sibling.
Advance(acc) == [acc EXCEPT !.node_index = @ + 1, !.i = @ + 1]

add_node_end ==
    /\ panic = "no"
    /\ Len(stack) >= 3
    /\ Top.kind = "level"
    /\ Top.i > Len(Top.nodes)
    /\ stack[Len(stack) - 1].kind = "node"
    /\ stack[Len(stack) - 1].pc = "children"
    /\ LET fr  == stack[Len(stack) - 1]
           acc == stack[Len(stack) - 2]
           r   == remove_leftover(host, vdom, fr.vnode, Top.node_index)
           res == end_result(r.h, acc, fr)
           f   == finish_node(r.h, r.vdom, acc, fr)
       IN  IF res = "ok"
           THEN /\ host' = f.h
                /\ vdom' = f.vdom
                /\ stack' = SubSeq(stack, 1, Len(stack) - 3) \o <<Advance(acc)>>
                /\ panic' = panic
           ELSE /\ host' = r.h
                /\ vdom' = r.vdom
                /\ stack' = stack
                /\ panic' = res
    /\ UNCHANGED <<rendered, state, pass>>

\* run, lines 112-114: the first pass is over, the main loop takes over.
run_end ==
    /\ panic = "no"
    /\ Len(stack) = 2
    /\ stack[1].kind = "run"
    /\ Top.kind = "level"
    /\ Top.i > Len(Top.nodes)
    /\ stack' = <<>>
    /\ UNCHANGED <<rendered, state, vdom, host, panic, pass>>

(***************************************************************************)
(* handle_listener and update_system up to the pass (lines 522-588 and     *)
(* 605-634): the listener makes the message, the updater applies it, the   *)
(* rendered tree is dropped and rendered anew.                             *)
(***************************************************************************)
RECURSIVE Below(_, _)
Below(dom, e) == {e} \cup UNION {Below(dom, c) : c \in Range(dom[e].children)}

\* The callbacks the host can call: those of the elements in the document.
Callbacks(h) ==
    UNION {Range(h.dom[e].listeners) : e \in Below(h.dom, RootId)}

Depth == Cardinality({i \in 1..Len(stack) : stack[i].kind \in {"run", "update_system"}})

\* The requests one call of the updater may issue: none, or one of requests.
Issuable(requests) ==
    {<<>>} \cup (IF Len(host.xhr) < MaxRequests
                 THEN {<<q>> : q \in requests} ELSE {})

\* Faulty variant of render_input: the renderer is given the state as it was
\* before the update.
render_stale(old, updated) == old

\* Line 622: renderer.render(state), state being what line 617 made of it.
render_input(old, updated) == updated

\* update_system, lines 605-634: the updater (issuing reqs through JsIo), the
\* renderer (returning d), the pass over the root level.  The activation
\* records its caller (the element whose callback called handle_listener, or
\* <<>> for handle_http_result) and how many messages the state the renderer
\* was given had seen.
update_system(h, msg, keys, d, reqs, el) ==
    /\ state' = Append(state, [msg |-> msg, keys |-> keys])
    /\ rendered' = d
    /\ host' = http_all([h EXCEPT !.calls = <<>>], reqs)
    /\ stack' = stack \o <<[kind |-> "update_system", msg |-> msg,
                            keys |-> keys, el |-> el,
                            seen |-> Len(render_input(state, state'))],
                           Level(<<d>>, RootId, <<>>)>>
    /\ pass' = BeginPass(vdom, rendered)

HandleListener(trees, requests) ==
    /\ panic = "no"
    /\ pass.n > 0
    /\ stack = <<>>
    /\ Len(state) < MaxMessages
    /\ \E e \in Below(host.dom, RootId), d \in trees, reqs \in Issuable(requests) :
          \E cb \in Range(host.dom[e].listeners) :
              /\ cb.ev \notin SyncEvents
              /\ update_system(host, Len(state) + 1, cb.keys, d, reqs, <<e>>)
    /\ UNCHANGED <<vdom, panic>>

\* An application that issues no request.
handle_listener == HandleListener(Rendered, {})

\* update_system, lines 635-637: the pass is over, control returns to the host.
update_system_end ==
    /\ panic = "no"
    /\ Len(stack) >= 2
    /\ stack[Len(stack) - 1].kind = "update_system"
    /\ Top.kind = "level"
    /\ Top.i > Len(Top.nodes)
    /\ stack' = SubSeq(stack, 1, Len(stack) - 2)
    /\ UNCHANGED <<rendered, state, vdom, host, panic, pass>>

Next ==
    \/ run
    \/ add_node_begin
    \/ add_node_end
    \/ run_end
    \/ handle_listener
    \/ update_system_end

Spec == Init /\ [][Next]_vars

(***************************************************************************)
(* The host dispatches a mutation event inside the mutating call: the      *)
(* callback of a listener on the parent (or above it) runs before          *)
(* WebElement::insert returns, and handle_listener calls update_system     *)
(* with nothing to hold it back while the pass of the caller is suspended  *)
(* at line 1154.                                                           *)
(***************************************************************************)
Above(dom, e) == {a \in DOMAIN dom : e \in Below(dom, a)}

handle_listener_in_insert ==
    /\ panic = "no"
    /\ Len(stack) >= 3
    /\ Top.kind = "level"
    /\ Top.i > Len(Top.nodes)
    /\ stack[Len(stack) - 1].kind = "node"
    /\ stack[Len(stack) - 1].pc = "children"
    /\ stack[Len(stack) - 1].vnode_index = <<>>
    /\ Depth <= MaxNest
    /\ LET fr  == stack[Len(stack) - 1]
           acc == stack[Len(stack) - 2]
           r   == remove_leftover(host, vdom, fr.vnode, Top.node_index)
           h   == insert(r.h, acc.parent, acc.node_index, fr.vnode)
       IN  /\ insert_ok(r.h, acc.parent, acc.node_index)
           /\ \E a \in Above(h.dom, acc.parent), d \in Rendered :
                 \E cb \in Range(h.dom[a].listeners) :
                    /\ cb.ev \in SyncEvents
                    /\ state' = Append(state, [msg |-> Len(state) + 1, keys |-> cb.keys])
                    /\ rendered' = d
                    /\ host' = [h EXCEPT !.calls = <<>>]
                    /\ vdom' = r.vdom
                    /\ stack' = SubSeq(stack, 1, Len(stack) - 2)
                                \o <<[fr EXCEPT !.pc = "insert"], Top,
                                     [kind |-> "update_system", msg |-> Len(state) + 1,
                                      keys |-> cb.keys, el |-> <<a>>,
                                      seen |-> Len(render_input(state, state'))],
                                     Level(<<d>>, RootId, <<>>)>>
                    /\ pass' = BeginPass(r.vdom, rendered)
    /\ UNCHANGED panic

\* WebElement::insert has returned into add_node: lines 1155 and 1158.  The
\* nested cycle used the tree this activation holds references into; the
\* activation goes on if what it refers to is still there, or the program dies.
add_node_resume ==
    /\ panic = "no"
    /\ Len(stack) >= 3
    /\ Top.kind = "level"
    /\ stack[Len(stack) - 1].kind = "node"
    /\ stack[Len(stack) - 1].pc = "insert"
    /\ LET fr  == stack[Len(stack) - 1]
           acc == stack[Len(stack) - 2]
       IN  \/ /\ acc.parent \in DOMAIN vdom
              /\ acc.node_index <= Len(vdom[acc.parent].children)
              /\ vdom' = [vdom EXCEPT ![acc.parent].children =
                                         InsertAt(@, acc.node_index, fr.vnode)]
              /\ stack' = SubSeq(stack, 1, Len(stack) - 3) \o <<Advance(acc)>>
              /\ panic' = panic
           \/ /\ panic' = "undefined"
              /\ UNCHANGED <<vdom, stack>>
    /\ UNCHANGED <<rendered, state, host, pass>>

NextReentrant ==
    \/ Next
    \/ handle_listener_in_insert
    \/ add_node_resume

SpecReentrant == Init /\ [][NextReentrant]_vars

(***************************************************************************)
(* A traversal step reports a failure.  process_all (the traversal of a     *)
(* node's listeners or children) visits the items in order and returns the  *)
(* first Err; add_node hands it on with `?` before it does anything else    *)
(* (lines 966, 1082, 1146), level after level, and run and update_system    *)
(* unwrap it (lines 112, 635): the program panics where it stands.          *)
(***************************************************************************)
\* Faulty variant of on_failure: the failing node is skipped.
on_failure_skip(acc) == [acc EXCEPT !.node_index = @ + 1, !.i = @ + 1]

\* The accumulator of the level the failure comes from: `?` returns before
\* the cursor moves.
on_failure(acc) == acc

process_all_fails ==
    /\ panic = "no"
    /\ stack # <<>>
    /\ Top.kind = "level"
    /\ stack' = Front(stack) \o <<on_failure(Top)>>
    /\ panic' = "unwrap"
    /\ UNCHANGED <<rendered, state, vdom, host, pass>>

NextFailing ==
    \/ Next
    \/ process_all_fails

SpecFailing == Init /\ [][NextFailing]_vars

(***************************************************************************)
(* An application that issues requests through JsIo::http.  The host calls *)
(* handle_http_result from its event loop, once for each request sent: on   *)
(* load (0), on timeout (1, when xhr.timeout is set) or on error (2).       *)
(***************************************************************************)
Requests == {HttpRequest(o, t) : o \in BOOLEAN, t \in {<<>>, <<0>>, <<5>>}}

IoTrees == {App(<<>>, <<>>), App(<<>>, <<Item(1, 11)>>)}

run_io == Run(IoTrees)

handle_listener_io == HandleListener(IoTrees, Requests)

Pending(h) == {r \in 1..Len(h.xhr) : h.xhr[r].sent /\ ~h.xhr[r].done}

\* Faulty variant of result_keys: the key path of the message applied last
\* (the one that issued the request, when no other came in between).
result_keys_of_last(applied) ==
    IF applied = <<>> THEN <<>> ELSE Last(applied).keys

\* Line 356: the key path handle_http_result hands to update_system is
\* Keys::new(), whatever messages were applied before.
result_keys(applied) == <<>>

\* handle_http_result, lines 322-356.  Line 326 reads the C string at
\* status_text whatever error_sig is; error_fn passes 0 for it (line 258), and
\* reading through a null pointer is undefined: the call goes on or dies.
handle_http_result(r, error_sig) ==
    /\ panic = "no"
    /\ pass.n > 0
    /\ stack = <<>>
    /\ \/ /\ error_sig # 0
          /\ panic' = "undefined"
          /\ host' = [host EXCEPT !.xhr[r].done = TRUE]
          /\ UNCHANGED <<rendered, state, stack, pass>>
       \/ /\ \E d \in IoTrees, reqs \in Issuable(Requests) :
                update_system([host EXCEPT !.xhr[r].done = TRUE,
                                           !.xhr[r].results =
                                               Append(@, HttpResult(error_sig))],
                              Len(state) + 1, result_keys(state), d, reqs, <<>>)
          /\ panic' = panic
    /\ UNCHANGED vdom

xhr_load == \E r \in Pending(host) : handle_http_result(r, 0)

xhr_timeout ==
    \E r \in Pending(host) : host.xhr[r].timeout # 0 /\ handle_http_result(r, 1)

xhr_error == \E r \in Pending(host) : handle_http_result(r, 2)

NextHttp ==
    \/ run_io
    \/ add_node_begin
    \/ add_node_end
    \/ run_end
    \/ handle_listener_io
    \/ update_system_end
    \/ xhr_load
    \/ xhr_timeout
    \/ xhr_error

SpecHttp == Init /\ [][NextHttp]_vars

(***************************************************************************)
(* WebElement::insert and WebElement::move_child on their own: the element  *)
(* found by element_from_selector as the parent, any index.  Each call is   *)
(* recorded on the stack with the parent's children as it found them.       *)
(***************************************************************************)
HostCall(op, index, h) ==
    [kind |-> "host_call", op |-> op, index |-> index,
     before |-> h.dom[RootId].children]

Indices == 0..(Len(host.dom[RootId].children) + 1)

element_from_selector ==
    /\ host.pool = <<>>
    /\ host' = PoolAlloc(host, "elem").h
    /\ UNCHANGED <<rendered, state, vdom, stack, panic, pass>>

\* Lines 656-680, for a child just created.
insert_child ==
    /\ panic = "no"
    /\ host.pool # <<>>
    /\ Len(stack) < MaxCalls
    /\ \E index \in Indices :
          LET c == create_node(host, <<"Tag", "li">>)
          IN  /\ stack' = Append(stack, HostCall("insert", <<index>>, host))
              /\ IF insert_ok(c.h, RootId, index)
                 THEN host' = insert(c.h, RootId, index, c.id) /\ panic' = panic
                 ELSE host' = c.h /\ panic' = "oob"
    /\ UNCHANGED <<rendered, state, vdom, pass>>

\* Lines 682-708.
move_a_child ==
    /\ panic = "no"
    /\ host.pool # <<>>
    /\ Len(stack) < MaxCalls
    /\ \E old_index \in Indices, new_index \in Indices :
          LET res == move_child_result(host, RootId, old_index, new_index)
          IN  /\ stack' = Append(stack, HostCall("move_child",
                                                  <<old_index, new_index>>, host))
              /\ IF res = "ok"
                 THEN host' = move_child(host, RootId, old_index, new_index)
                      /\ panic' = panic
                 ELSE host' = host /\ panic' = res
    /\ UNCHANGED <<rendered, state, vdom, pass>>

NextHost ==
    \/ element_from_selector
    \/ insert_child
    \/ move_a_child

SpecHost == Init /\ [][NextHost]_vars

(***************************************************************************)
(* The claims.                                                             *)
(***************************************************************************)
\* The driver is back in the host's main loop after a completed pass.
PassDone == stack = <<>> /\ pass.n > 0 /\ panic = "no"

CallsOf(opset) == {i \in 1..Len(host.calls) : host.calls[i].op \in opset}

CreatedNow == {host.calls[i].el : i \in CallsOf({"createElement", "createText"})}

\* The materialized node of the rendered root, first of the root level.
RootNode(vd) == At(vd[RootId].children, 0)

\* The rendered root is the previous one but for its children.
SameRoot ==
    /\ pass.n > 1
    /\ [pass.prev EXCEPT !.children = <<>>] = [rendered EXCEPT !.children = <<>>]

DistinctKeyed(kids) ==
    \A i, j \in 1..Len(kids) :
        kids[i].key # <<>> /\ (i # j => kids[i].key # kids[j].key)

\* C1: a pass over the tree of the pass before it (same keys, values,
\* attributes and listener addresses) makes no host mutation call at all,
\* at any point of the pass.
C1_Idempotence ==
    (pass.n > 1 /\ pass.prev = rendered) => host.calls = <<>>

C1_Witness ==
    /\ PassDone
    /\ pass.n > 1
    /\ pass.prev = rendered
    /\ Len(rendered.children) = 3

\* C2: when a pass is over, every materialized node that was there before it
\* and was not matched in it is gone from every level and from under every
\* host element, the root level included.
Unmatched == ((DOMAIN pass.pre) \ {RootId}) \ pass.reused

InSomeLevel(id) == \E p \in DOMAIN vdom : id \in Range(vdom[p].children)

InHostTree(id) == \E e \in DOMAIN host.dom : id \in Range(host.dom[e].children)

C2_UnmatchedDestroyed ==
    PassDone =>
        \A id \in Unmatched \ CreatedNow : ~InSomeLevel(id) /\ ~InHostTree(id)

\* C3: the siblings of a level, with pairwise distinct keys, rendered again in
\* another order: every materialized node is reused, the only host calls are
\* moveChild on the parent, and the level and the host children end in the
\* new order.
Reordered ==
    /\ SameRoot
    /\ DistinctKeyed(rendered.children)
    /\ Len(pass.prev.children) = Len(rendered.children)
    /\ Range(pass.prev.children) = Range(rendered.children)

KeyVals(kids) == [i \in 1..Len(kids) |-> <<kids[i].key, kids[i].value>>]

RemovedAt(k) ==
    /\ SameRoot
    /\ DistinctKeyed(pass.prev.children)
    /\ KeyVals(rendered.children) = RemoveAt(KeyVals(pass.prev.children), k)

OneRemoval(k) ==
    LET rid == RootNode(pass.pre)
        old == pass.pre[rid].children
    IN  /\ Cardinality(CallsOf({"removeChild"})) = 1
        /\ \A i \in CallsOf({"removeChild"}) : host.calls[i].el = At(old, k)
        /\ rid = RootNode(vdom)
        /\ vdom[rid].children = RemoveAt(old, k)
        /\ host.dom[rid].children = RemoveAt(old, k)

ListenersKept(id) ==
    /\ vdom[id].listeners = pass.pre[id].listeners
    /\ \A i \in CallsOf({"attachListener", "detachListener"}) : host.calls[i].el # id

SameListeners(id, node) ==
    {<<l.ptr, l.ev>> : l \in Range(pass.pre[id].listeners)}
        = {<<l.ptr, l.ev>> : l \in Range(node.listeners)}

Survivor(k, i) == At(RemoveAt(pass.pre[RootNode(pass.pre)].children, k), i - 1)

C4_Original ==
    (PassDone /\ pass.n > 1) =>
        \A k \in 0..(Len(pass.prev.children) - 1) :
            RemovedAt(k) =>
                /\ OneRemoval(k)
                /\ \A i \in 1..Len(rendered.children) : ListenersKept(Survivor(k, i))

C4_IdentityStability ==
    (PassDone /\ pass.n > 1) =>
        \A k \in 0..(Len(pass.prev.children) - 1) :
            RemovedAt(k) =>
                /\ OneRemoval(k)
                /\ \A i \in 1..Len(rendered.children) :
                      SameListeners(Survivor(k, i), rendered.children[i])
                          => ListenersKept(Survivor(k, i))

C4_Witness ==
    /\ PassDone
    /\ pass.n > 1
    /\ Len(pass.prev.children) = 3
    /\ RemovedAt(1)
    /\ \A i \in 1..2 : SameListeners(Survivor(1, i), rendered.children[i])
    /\ \A i \in 1..2 : vdom[Survivor(1, i)].listeners # <<>>

\* C5: in every state between two steps of a pass, and when a pass is over,
\* the children of every live materialized node are, position by position,
\* the child elements of its host handle.
C5_OrderInvariant ==
    \A id \in DOMAIN vdom : vdom[id].children = host.dom[id].children

C5_Witness ==
    /\ stack # <<>>
    /\ CallsOf({"moveChild"}) # {}
    /\ CallsOf({"insertChild"}) # {}
    /\ CallsOf({"removeChild"}) # {}

\* C6: once a matched node has been reconciled (while its children are being
\* processed, and for the root node when the pass is over) its retained
\* attributes are, as a set of (key, value) pairs, the attributes the new node
\* declares, whatever was retained before.
C6_AttributeConvergence ==
    /\ \A i \in 1..Len(stack) :
          (stack[i].kind = "node" /\ stack[i].vnode_index # <<>>) =>
              Range(vdom[stack[i].vnode].attributes)
                  = Range(stack[i].node.attributes)
    /\ PassDone =>
          Range(vdom[RootNode(vdom)].attributes) = Range(rendered.attributes)

C6_Witness ==
    \E i \in 1..Len(stack) :
        /\ stack[i].kind = "node"
        /\ stack[i].vnode_index # <<>>
        /\ Range(pass.pre[stack[i].vnode].attributes)
               \ Range(stack[i].node.attributes) # {}
        /\ Range(stack[i].node.attributes)
               \ Range(pass.pre[stack[i].vnode].attributes) # {}
        /\ Range(stack[i].node.attributes)
               \cap Range(pass.pre[stack[i].vnode].attributes) # {}

\* C7: when a pass is over, the properties set on the host element of every
\* live materialized node are its retained attributes: an attribute no longer
\* declared is no longer set on the host.
HostProps(attrs) == {<<a[1], AsStr(a[2])>> : a \in Range(attrs)}

C7_HostAttributes ==
    PassDone =>
        \A id \in (DOMAIN vdom) \ {RootId} :
            host.dom[id].props = HostProps(vdom[id].attributes)

\* C8: a node whose variant or content changes at the same key path is never
\* reused: the new node gets a new host handle and the old materialized node
\* is gone when the pass is over; a reused node keeps its value and key path.
\* Stated for the root node and for the keyed children of an unchanged root.
Replaced(old, new) == old \notin pass.reused /\ new \in CreatedNow
                      /\ (old \in CreatedNow \/ ~InSomeLevel(old))

ChildAt(vd, rid, key) ==
    CHOOSE id \in Range(vd[rid].children) : vd[id].keys = key

C8_VariantChange ==
    (PassDone /\ pass.n > 1) =>
        /\ \A id \in pass.reused :
              /\ vdom[id].value = pass.pre[id].value
              /\ vdom[id].keys = pass.pre[id].keys
        /\ (pass.prev.key = rendered.key /\ pass.prev.value # rendered.value)
              => Replaced(RootNode(pass.pre), RootNode(vdom))
        /\ SameRoot =>
              \A i \in 1..Len(pass.prev.children), j \in 1..Len(rendered.children) :
                  LET o == pass.prev.children[i]
                      c == rendered.children[j]
                  IN  (DistinctKeyed(pass.prev.children)
                       /\ DistinctKeyed(rendered.children)
                       /\ o.key = c.key /\ o.value # c.value)
                      => Replaced(ChildAt(pass.pre, RootNode(pass.pre), o.key),
                                  ChildAt(vdom, RootNode(vdom), c.key))

\* C9: at most one update/render/reconcile cycle is in progress at any time.
CyclesInFlight ==
    Cardinality({i \in 1..Len(stack) : stack[i].kind = "update_system"})

C9_OneCycleInFlight == CyclesInFlight <= 1

\* C10: messages are applied in the order the host delivered them, and the
\* pass of every message but the last applied one is over: no pass of an
\* earlier message is still in progress when a later message is applied.
C10_MessageOrdering ==
    /\ \A i \in 1..Len(state) : state[i].msg = i
    /\ \A i \in 1..Len(stack) :
          stack[i].kind = "update_system" => stack[i].msg = Len(state)

\* C11: every request issued through JsIo::http has had exactly one result
\* handed to its response handler (Ok, Timeout or NetworkError, each with one
\* message into update_system), or has had none yet and is still a sent
\* XMLHttpRequest the host will call back for: never more than one result,
\* and never a request left with none, a request whose open failed included.
C11_ExactlyOneOutcome ==
    \A r \in 1..Len(host.xhr) :
        /\ Len(host.xhr[r].results) <= 1
        /\ Range(host.xhr[r].results) \subseteq {"Ok", "Timeout", "NetworkError"}
        /\ Len(host.xhr[r].results) = 0 => (host.xhr[r].sent /\ ~host.xhr[r].done)

\* C19: a request sent with a timeout parameter, whatever its value, that has
\* no outcome yet has the host's timer armed, so that it resolves with Timeout
\* when neither a response nor a network error arrives; once it is resolved
\* its handler has been given exactly one outcome.
HasTimeoutParameter(x) == x.request.timeout_millis # <<>>

C19_TimeoutResolves ==
    \A r \in 1..Len(host.xhr) :
        (HasTimeoutParameter(host.xhr[r]) /\ host.xhr[r].sent) =>
            IF host.xhr[r].done
            THEN Len(host.xhr[r].results) = 1
            ELSE host.xhr[r].timeout # 0

\* C12: when add_node is through with the children of a node, exactly the
\* materialized children at indices at or after the final child cursor are
\* destroyed, each once and the last first (one removeChild each, its node and
\* its handle gone), and the children below the cursor stay as they are.
AtCleanup ==
    /\ panic = "no"
    /\ Len(stack) >= 3
    /\ Top.kind = "level"
    /\ Top.i > Len(Top.nodes)
    /\ stack[Len(stack) - 1].kind = "node"
    /\ stack[Len(stack) - 1].pc = "children"

Count(q, x) == Cardinality({i \in 1..Len(q) : q[i] = x})

Reverse(q) == [i \in 1..Len(q) |-> q[Len(q) + 1 - i]]

C12_TrailingCleanup ==
    [][AtCleanup =>
        LET vid     == stack[Len(stack) - 1].vnode
            cursor  == Top.node_index
            before  == vdom[vid].children
            kept    == SubSeq(before, 1, cursor)
            gone    == SubSeq(before, cursor + 1, Len(before))
            new     == SubSeq(host'.calls, Len(host.calls) + 1, Len(host'.calls))
            isRemoval(c) == c.op = "removeChild"
            removed == SelectSeq(new, isRemoval)
        IN  /\ vdom'[vid].children = kept
            /\ [i \in 1..Len(removed) |-> removed[i].el] = Reverse(gone)
            /\ \A i \in 1..Len(gone) :
                  /\ gone[i] \notin DOMAIN vdom'
                  /\ gone[i] \notin DOMAIN host'.dom
                  /\ Count(host'.free, gone[i]) = Count(host.free, gone[i]) + 1
            /\ \A i \in 1..Len(kept) :
                  /\ kept[i] \in DOMAIN vdom'
                  /\ vdom'[kept[i]] = vdom[kept[i]]
                  /\ host'.dom[kept[i]] = host.dom[kept[i]]
    ]_vars

C12_Witness ==
    /\ PassDone
    /\ SameRoot
    /\ Len(pass.prev.children) = 3
    /\ Len(rendered.children) = 1
    /\ rendered.children[1].key = pass.prev.children[3].key
    /\ rendered.children[1].key # <<>>
    /\ RootNode(vdom) \in pass.reused
    /\ Cardinality(CallsOf({"removeChild"})) = 2

\* C13: a level of n distinctly keyed items rendered again followed by one
\* new item with a fresh key: the only element created is the new item's, the
\* only insertChild is the new item's, on the parent at position n, nothing
\* is moved or removed and the n items keep their handles and their order.
\* As claimed, no host call at all is made on the handles of the n items; as
\* amended, none is made on an item whose declared listeners have the
\* addresses and event types of those attached, and an item whose listeners
\* moved gets detachListener and attachListener calls only.
Appended ==
    /\ SameRoot
    /\ DistinctKeyed(rendered.children)
    /\ Len(rendered.children) = Len(pass.prev.children) + 1
    /\ KeyVals(Front(rendered.children)) = KeyVals(pass.prev.children)

AppendedOnly ==
    LET rid == RootNode(pass.pre)
        old == pass.pre[rid].children
        n   == Len(old)
        new == Last(vdom[rid].children)
    IN  /\ rid = RootNode(vdom)
        /\ Len(vdom[rid].children) = n + 1
        /\ Front(vdom[rid].children) = old
        /\ host.dom[rid].children = vdom[rid].children
        /\ CreatedNow = {new}
        /\ new \notin DOMAIN pass.pre
        /\ Cardinality(CallsOf({"insertChild"})) = 1
        /\ \A i \in CallsOf({"insertChild"}) :
              host.calls[i].el = rid /\ host.calls[i].arg = <<n, new>>
        /\ CallsOf({"moveChild", "removeChild"}) = {}

CallsOn(id) == {i \in 1..Len(host.calls) : host.calls[i].el = id}

C13_Original ==
    (PassDone /\ Appended) =>
        /\ AppendedOnly
        /\ \A id \in Range(pass.pre[RootNode(pass.pre)].children) : CallsOn(id) = {}

C13_AppendLeavesItems ==
    (PassDone /\ Appended) =>
        /\ AppendedOnly
        /\ \A i \in 1..Len(pass.prev.children) :
              LET id == At(pass.pre[RootNode(pass.pre)].children, i - 1)
              IN  /\ CallsOn(id) \subseteq CallsOf({"attachListener", "detachListener"})
                  /\ SameListeners(id, rendered.children[i]) => CallsOn(id) = {}

C13_Witness ==
    /\ PassDone
    /\ Appended
    /\ Len(pass.prev.children) = 2
    /\ \A i \in 1..2 :
          SameListeners(At(pass.pre[RootNode(pass.pre)].children, i - 1),
                        rendered.children[i])

\* C14: as claimed, no level of the materialized tree ever holds two live
\* nodes with the same key path and the same value.  As amended, a pass never
\* brings such a pair about unless the rendered tree declares one: if no level
\* held two such nodes when the pass began and the siblings of every level of
\* the rendered tree differ pairwise in key or value, no level holds two such
\* nodes at any point of the pass or after it.
NoTwins(vd) ==
    \A p \in DOMAIN vd :
        \A i, j \in 1..Len(vd[p].children) :
            i # j => ~(/\ vd[vd[p].children[i]].keys = vd[vd[p].children[j]].keys
                       /\ vd[vd[p].children[i]].value = vd[vd[p].children[j]].value)

RECURSIVE DistinctSiblings(_)
DistinctSiblings(node) ==
    /\ \A i, j \in 1..Len(node.children) :
          i # j => <<node.children[i].key, node.children[i].value>>
                       # <<node.children[j].key, node.children[j].value>>
    /\ \A i \in 1..Len(node.children) : DistinctSiblings(node.children[i])

C14_Original == NoTwins(vdom)

C14_Uniqueness ==
    (pass.n > 0 /\ NoTwins(pass.pre) /\ DistinctSiblings(rendered)) => NoTwins(vdom)

C14_Witness ==
    /\ PassDone
    /\ pass.n > 1
    /\ NoTwins(pass.pre)
    /\ DistinctSiblings(rendered)
    /\ Len(rendered.children) = 2
    /\ CallsOf({"createElement", "createText"}) # {}
    /\ CallsOf({"moveChild"}) # {}
    /\ CallsOf({"removeChild"}) # {}

\* C15: for every node being reconciled, the entry reused is the one with the
\* smallest index at or after the cursor whose key path and value equal the
\* node's, whatever equal entries come later; when no entry at or after the
\* cursor is equal the node is created, whatever equal entries lie below the
\* cursor.  (Stated while the node's children are processed: the parent's
\* level and cursor are then as the scan saw them.)
Reconciling == {i \in 2..Len(stack) : stack[i].kind = "node" /\ stack[i].pc = "children"}

EqualEntry(i, j) ==
    LET acc == stack[i - 1]
        e   == vdom[At(vdom[acc.parent].children, j)]
    IN  /\ e.keys = node_keys(acc.keys, stack[i].node)
        /\ e.value = stack[i].node.value

C15_FirstMatch ==
    \A i \in Reconciling :
        LET acc   == stack[i - 1]
            level == vdom[acc.parent].children
            m     == stack[i].vnode_index
        IN  IF m # <<>>
            THEN /\ acc.node_index <= m[1]
                 /\ m[1] < Len(level)
                 /\ stack[i].vnode = At(level, m[1])
                 /\ EqualEntry(i, m[1])
                 /\ \A j \in acc.node_index..(m[1] - 1) : ~EqualEntry(i, j)
            ELSE /\ \A j \in acc.node_index..(Len(level) - 1) : ~EqualEntry(i, j)
                 /\ stack[i].vnode \notin Range(level)
                 /\ stack[i].vnode \in CreatedNow

\* A node is created although an equal entry lies below the cursor.
C15_Witness ==
    \E i \in Reconciling :
        /\ stack[i].vnode_index = <<>>
        /\ pass.n > 1
        /\ \E j \in 0..(stack[i - 1].node_index - 1) : EqualEntry(i, j)

\* An entry is reused although an equal entry comes later.
LaterCandidate ==
    \E i \in Reconciling :
        /\ stack[i].vnode_index # <<>>
        /\ \E j \in (stack[i].vnode_index[1] + 1)
                        ..(Len(vdom[stack[i - 1].parent].children) - 1) :
              EqualEntry(i, j)

\* C16: the key path a callback hands to handle_listener, and handle_listener
\* to the updater, is the key path of the materialized node the listener is
\* attached to: in every state every callback attached to the element of a
\* live node holds that node's key path (whether it was attached when the
\* node was created or when it was reused, and after any later pass), and the
\* message an activation of update_system applied carries the key path of
\* the node whose callback called it.
ClosureKeys ==
    \A id \in (DOMAIN vdom) \ {RootId} :
        /\ \A i \in 1..Len(host.dom[id].listeners) :
              host.dom[id].listeners[i].keys = vdom[id].keys
        /\ {l.el : l \in Range(vdom[id].listeners)}
               = {cb.cb : cb \in Range(host.dom[id].listeners)}

FiredKeys ==
    \A i \in 1..Len(stack) :
        (stack[i].kind = "update_system" /\ stack[i].el # <<>>) =>
            /\ stack[i].el[1] \in DOMAIN pass.pre
            /\ pass.pre[stack[i].el[1]].keys = stack[i].keys
            /\ state[stack[i].msg].keys = stack[i].keys

C16_ListenerKeyPath == ClosureKeys /\ FiredKeys

\* A keyed node is reused and gets a listener attached anew while the message
\* of a keyed node's listener is being handled.
C16_Witness ==
    /\ Len(stack) = 2
    /\ stack[1].kind = "update_system"
    /\ stack[1].keys # <<>>
    /\ Top.i > Len(Top.nodes)
    /\ \E id \in pass.reused :
          /\ vdom[id].keys # <<>>
          /\ \E i \in CallsOf({"attachListener"}) : host.calls[i].el = id
          /\ \E cb \in Callbacks(host) : cb.keys = vdom[id].keys

OutOfRange(c) ==
    IF c.op = "insert" THEN c.index[1] > Len(c.before)
    ELSE c.index[1] >= Len(c.before) \/ c.index[2] > Len(c.before)

C18_HostIndexChecks ==
    \A i \in 1..Len(stack) :
        (stack[i].kind = "host_call" /\ OutOfRange(stack[i])) =>
            /\ i = Len(stack)
            /\ panic = "oob"
            /\ host.dom[RootId].children = stack[i].before

\* C20: every message handled makes one cycle: one update (the state has
\* seen exactly the messages handled), then one render of the updated state
\* replacing the rendered tree of the cycle before, then one pass of the new
\* tree over the root level; there is one pass for run and one for each
\* message.  (Stated for every activation of update_system on the stack,
\* whether the host called it from its event loop or inside a host call.)
C20_CycleOrder ==
    /\ pass.n > 0 => pass.n = Len(state) + 1
    /\ \A i \in 1..Len(stack) :
          stack[i].kind = "update_system" =>
              /\ state[stack[i].msg].msg = stack[i].msg
              /\ stack[i].seen = stack[i].msg
              /\ Len(stack) > i
              /\ stack[i + 1].kind = "level"
              /\ stack[i + 1].parent = RootId
              /\ stack[i].msg = Len(state) => stack[i + 1].nodes = <<rendered>>
              /\ \A j \in (i + 2)..Len(stack) :
                    (stack[j].kind = "level" /\ stack[j].parent = RootId)
                        => stack[j - 1].kind = "update_system"

C20_Witness ==
    /\ Len(stack) = 2
    /\ stack[1].kind = "update_system"
    /\ Top.i > Len(Top.nodes)
    /\ rendered # pass.prev
    /\ host.calls # <<>>

\* C21: while the children of a reused node are processed (its listeners have
\* been reconciled) the (address, event type) pairs it retains, and those of
\* the callbacks attached to its host element, are the pairs the new node
\* declares, each once; every pair attached before and no longer declared was
\* detached with one detachListener, every declared pair not attached before
\* was attached with one attachListener, and every pair on both sides keeps
\* its callback handle with no call on it.
ListenerPairs(ls) == {<<l.ptr, l.ev>> : l \in Range(ls)}

ListenerCalls(op, id, arg) ==
    {i \in CallsOf({op}) : host.calls[i].el = id /\ host.calls[i].arg = arg}

AttachedAs(op, id, pair) ==
    {i \in CallsOf({op}) : /\ host.calls[i].el = id
                           /\ <<host.calls[i].arg.ptr, host.calls[i].arg.ev>> = pair}

ReusedFrames ==
    {i \in 1..Len(stack) : stack[i].kind = "node" /\ stack[i].vnode_index # <<>>}

C21_ListenerDiff ==
    \A i \in ReusedFrames :
        LET id  == stack[i].vnode
            old == pass.pre[id].listeners
            new == stack[i].node.listeners
            now == vdom[id].listeners
        IN  /\ ListenerPairs(now) = ListenerPairs(new)
            /\ Len(now) = Cardinality(ListenerPairs(new))
            /\ {[el |-> c.cb, ptr |-> c.ptr, ev |-> c.ev] :
                   c \in Range(host.dom[id].listeners)} = Range(now)
            /\ Len(host.dom[id].listeners) = Len(now)
            /\ \A o \in Range(old) :
                  IF <<o.ptr, o.ev>> \in ListenerPairs(new)
                  THEN /\ o \in Range(now)
                       /\ ListenerCalls("detachListener", id, <<o.ev, o.el>>) = {}
                       /\ AttachedAs("attachListener", id, <<o.ptr, o.ev>>) = {}
                  ELSE Cardinality(ListenerCalls("detachListener", id,
                                                 <<o.ev, o.el>>)) = 1
            /\ \A l \in Range(new) :
                  IF <<l.ptr, l.ev>> \in ListenerPairs(old)
                  THEN AttachedAs("attachListener", id, <<l.ptr, l.ev>>) = {}
                  ELSE Cardinality(AttachedAs("attachListener", id,
                                              <<l.ptr, l.ev>>)) = 1
            /\ Cardinality({c \in CallsOf({"detachListener"}) : host.calls[c].el = id})
                  = Cardinality(ListenerPairs(old) \ ListenerPairs(new))

C21_Witness ==
    \E i \in ReusedFrames :
        LET old == ListenerPairs(pass.pre[stack[i].vnode].listeners)
            new == ListenerPairs(stack[i].node.listeners)
        IN  /\ old \ new # {}
            /\ new \ old # {}
            /\ old \cap new # {}

\* C22: for every level being processed, the cursor is the number of new
\* siblings handled so far, and the first cursor entries of the materialized
\* level have, position by position, the key path and the value of the
\* siblings handled, whether they were reused or created.
Levels == {i \in 1..Len(stack) : stack[i].kind = "level"}

Handled(acc) == acc.i - 1

C22_CursorPrefix ==
    \A i \in Levels :
        LET acc   == stack[i]
            level == vdom[acc.parent].children
        IN  /\ acc.node_index = Handled(acc)
            /\ Len(level) >= acc.node_index
            /\ \A k \in 1..Handled(acc) :
                  /\ vdom[level[k]].keys = node_keys(acc.keys, acc.nodes[k])
                  /\ vdom[level[k]].value = acc.nodes[k].value

C22_Witness ==
    \E i \in Levels :
        /\ Handled(stack[i]) = 3
        /\ pass.n > 1
        /\ CallsOf({"createElement"}) # {}
        /\ CallsOf({"moveChild"}) # {}
        /\ CallsOf({"removeChild"}) = {}
        /\ Range(vdom[stack[i].parent].children) \cap pass.reused # {}
        /\ Range(vdom[stack[i].parent].children) \cap CreatedNow # {}

\* C23: in every step of a pass the entries below the cursor of every level
\* being processed, and the nodes under them, stay as they are: they keep
\* their place in the level and under the host parent, their handles stay
\* allocated, and the node a step reuses is none of them and none that was
\* reused or created earlier in the pass.
RECURSIVE Subtree(_, _)
Subtree(vd, id) == {id} \cup UNION {Subtree(vd, c) : c \in Range(vd[id].children)}

Prefix(children, acc) == SubSeq(children, 1, acc.node_index)

Consumed ==
    UNION {UNION {Subtree(vdom, id) :
                     id \in Range(Prefix(vdom[stack[i].parent].children, stack[i]))} :
              i \in Levels}

C23_ConsumedOnce ==
    [][/\ \A i \in Levels :
             LET p == stack[i].parent
             IN  /\ p \in DOMAIN vdom'
                 /\ Prefix(vdom'[p].children, stack[i])
                        = Prefix(vdom[p].children, stack[i])
                 /\ Prefix(host'.dom[p].children, stack[i])
                        = Prefix(host.dom[p].children, stack[i])
       /\ \A id \in Consumed :
             /\ id \in DOMAIN vdom'
             /\ vdom'[id].children = vdom[id].children
             /\ vdom'[id].value = vdom[id].value
             /\ vdom'[id].keys = vdom[id].keys
             /\ host'.pool[id + 1] = "elem"
             /\ host'.dom[id].children = host.dom[id].children
       /\ (/\ Len(stack') = Len(stack) + 2
           /\ stack'[Len(stack) + 1].kind = "node"
           /\ stack'[Len(stack) + 1].vnode_index # <<>>)
              => stack'[Len(stack) + 1].vnode
                     \notin (Consumed \cup pass.reused \cup CreatedNow)
      ]_vars

\* Two equal entries below the cursor: one reused, the next created.
C23_Witness ==
    \E i \in Levels :
        LET level == vdom[stack[i].parent].children
        IN  /\ Handled(stack[i]) = 2
            /\ vdom[level[1]].value = vdom[level[2]].value
            /\ vdom[level[1]].keys = vdom[level[2]].keys
            /\ level[1] \in pass.reused
            /\ level[2] \in CreatedNow
            /\ level[2] \in Consumed

\* C24: the key path of a node is the key path of its parent followed by the
\* node's own key when it has one, and the parent's key path otherwise.  The
\* key path a level works with stays the parent's whatever keyed siblings have
\* been handled, and the level of a node's children works with the node's.
PathOf(parent_keys, node) ==
    IF node.key = <<>> THEN parent_keys ELSE parent_keys \o node.key

C24_KeyPath ==
    /\ \A i \in Levels :
          LET acc   == stack[i]
              level == vdom[acc.parent].children
          IN  /\ acc.keys = vdom[acc.parent].keys
              /\ \A k \in 1..Handled(acc) :
                    vdom[level[k]].keys = PathOf(vdom[acc.parent].keys, acc.nodes[k])
    /\ \A i \in Reconciling :
          /\ vdom[stack[i].vnode].keys
                 = PathOf(vdom[stack[i - 1].parent].keys, stack[i].node)
          /\ stack[i + 1].kind = "level"
          /\ stack[i + 1].parent = stack[i].vnode
          /\ stack[i + 1].keys = vdom[stack[i].vnode].keys

\* Under a keyed root a keyed item, an unkeyed parent with its keyed
\* grandchild and a keyed item again have been handled.
C24_Witness ==
    \E i \in Levels :
        LET level == vdom[stack[i].parent].children
        IN  /\ stack[i].keys = <<5>>
            /\ Handled(stack[i]) = 3
            /\ vdom[level[1]].keys = <<5, 1>>
            /\ vdom[level[2]].keys = <<5>>
            /\ vdom[vdom[level[2]].children[1]].keys = <<5, 7>>
            /\ vdom[level[3]].keys = <<5, 2>>

\* C25: unkeyed siblings of one value rendered again in another order: the
\* pass creates, inserts, moves and removes nothing; when it is over every
\* materialized node is where it was, under the same host parent, and the
\* node at each position retains the attributes and listeners of the sibling
\* now rendered at that position, every host call having been made on the
\* node at the position of the sibling it serves.
Orderings(n) == {f \in [1..n -> 1..n] : \A i, j \in 1..n : i # j => f[i] # f[j]}

UnkeyedReordered ==
    /\ SameRoot
    /\ Len(pass.prev.children) = Len(rendered.children)
    /\ rendered.children # pass.prev.children
    /\ \A c \in Range(pass.prev.children) \cup Range(rendered.children) :
          c.key = <<>> /\ c.value = rendered.children[1].value
    /\ \E f \in Orderings(Len(rendered.children)) :
          \A i \in 1..Len(rendered.children) :
              rendered.children[i] = pass.prev.children[f[i]]

StructuralOps ==
    {"createElement", "createText", "insertChild", "moveChild", "removeChild"}

C25_UnkeyedReordering ==
    (pass.n > 1 /\ UnkeyedReordered) =>
        /\ CallsOf(StructuralOps) = {}
        /\ PassDone =>
              LET rid  == RootNode(vdom)
                  kids == vdom[rid].children
              IN  /\ rid = RootNode(pass.pre)
                  /\ kids = pass.pre[rid].children
                  /\ host.dom[rid].children = kids
                  /\ \A i \in 1..Len(kids) :
                        /\ kids[i] \in pass.reused
                        /\ Range(vdom[kids[i]].attributes)
                               = Range(rendered.children[i].attributes)
                        /\ ListenerPairs(vdom[kids[i]].listeners)
                               = ListenerPairs(rendered.children[i].listeners)
                  /\ \A c \in 1..Len(host.calls) :
                        \E i \in 1..Len(kids) :
                            /\ host.calls[c].el = kids[i]
                            /\ \/ /\ host.calls[c].op = "setAttribute"
                                  /\ host.calls[c].arg
                                         \in Range(rendered.children[i].attributes)
                               \/ /\ host.calls[c].op = "attachListener"
                                  /\ <<host.calls[c].arg.ptr, host.calls[c].arg.ev>>
                                         \in ListenerPairs(rendered.children[i].listeners)
                               \/ /\ host.calls[c].op = "detachListener"
                                  /\ \E o \in Range(pass.prev.children[i].listeners) :
                                        o.ev = host.calls[c].arg[1]

C25_Witness ==
    /\ PassDone
    /\ pass.n > 1
    /\ UnkeyedReordered
    /\ CallsOf({"setAttribute"}) # {}
    /\ CallsOf({"attachListener"}) # {}
    /\ CallsOf({"detachListener"}) # {}

\* C26: a node with no match is created first, then all its listeners are
\* attached and all its attributes set, then its subtree is created and
\* inserted under it, and only then is its handle inserted under the host
\* parent at the cursor and its materialized node into the level at the
\* cursor; nothing under a created node is reused.
CreatedFrames == {i \in Reconciling : stack[i].vnode_index = <<>>}

SetupOps == {"attachListener", "setAttribute"}

CreateOps == {"createElement", "createText"}

\* The calls from the creation of id (call cr) to its insertion (call c):
\* the node's own setup first, then calls on created nodes under it only.
SetupThenSubtree(id, cr, c) ==
    \A k \in (cr + 1)..(c - 1) :
        LET x == host.calls[k]
        IN  IF x.el = id
            THEN \/ /\ x.op \in SetupOps
                    /\ \A k2 \in (cr + 1)..(k - 1) :
                          host.calls[k2].el = id /\ host.calls[k2].op \in SetupOps
                 \/ /\ x.op = "insertChild"
                    /\ x.arg[2] \in CreatedNow
            ELSE /\ x.op \in CreateOps \cup SetupOps \cup {"insertChild"}
                 /\ x.el \in CreatedNow \ pass.reused
                 /\ x.el \in Subtree(vdom, id)

C26_Order ==
    /\ \A i \in CreatedFrames :
          LET id     == stack[i].vnode
              node   == stack[i].node
              parent == stack[i - 1].parent
          IN  /\ id \notin Range(vdom[parent].children)
              /\ id \notin Range(host.dom[parent].children)
              /\ \A c \in CallsOf({"insertChild"}) : host.calls[c].arg[2] # id
              /\ [j \in 1..Len(host.dom[id].listeners) |->
                     On(host.dom[id].listeners[j].ptr, host.dom[id].listeners[j].ev)]
                     = node.listeners
              /\ host.dom[id].props = HostProps(node.attributes)
              /\ vdom[id].attributes = node.attributes
              /\ \A j \in Reconciling : j > i => stack[j].vnode_index = <<>>
    /\ \A c \in CallsOf({"insertChild"}) :
          LET id == host.calls[c].arg[2]
          IN  /\ id \in CreatedNow
              /\ \E cr \in CallsOf(CreateOps) :
                    /\ host.calls[cr].el = id
                    /\ cr < c
                    /\ SetupThenSubtree(id, cr, c)
    /\ \A id \in CreatedNow \cap DOMAIN vdom :
          Subtree(vdom, id) \subseteq (CreatedNow \ pass.reused)

\* The step that inserts: the handle goes under the host parent at the
\* cursor, the node into the level at the cursor.
C26_Insertion ==
    (/\ Len(host'.calls) > Len(host.calls)
     /\ Last(host'.calls).op = "insertChild")
        => /\ Len(stack) >= 3
           /\ LET acc == stack[Len(stack) - 2]
                  fr  == stack[Len(stack) - 1]
              IN  /\ fr.kind = "node"
                  /\ fr.vnode_index = <<>>
                  /\ Last(host'.calls)
                         = Call("insertChild", acc.parent, <<acc.node_index, fr.vnode>>)
                  /\ host'.calls = Append(host.calls, Last(host'.calls))
                  /\ host'.dom[acc.parent].children
                         = InsertAt(host.dom[acc.parent].children, acc.node_index,
                                    fr.vnode)
                  /\ vdom'[acc.parent].children
                         = InsertAt(vdom[acc.parent].children, acc.node_index,
                                    fr.vnode)
                  /\ host'.dom[fr.vnode].children = vdom'[fr.vnode].children
                  /\ Len(vdom'[fr.vnode].children) = Len(fr.node.children)

C26_CreationOrder == [][C26_Order' /\ C26_Insertion]_vars

\* A created node with listeners, attributes and a created subtree of two
\* levels has been inserted, and a node has been inserted at cursor 2.
C26_Witness ==
    /\ PassDone
    /\ \E c \in CallsOf({"insertChild"}) :
          LET id == host.calls[c].arg[2]
          IN  /\ id \in DOMAIN vdom
              /\ vdom[id].listeners # <<>>
              /\ vdom[id].attributes # <<>>
              /\ Len(vdom[id].children) = 3
              /\ vdom[vdom[id].children[2]].children # <<>>
    /\ \E c \in CallsOf({"insertChild"}) : host.calls[c].arg[1] = 2

\* C27: the message of a request's outcome (a response, a timeout, a network
\* error) is applied with the empty key path, whatever the key path of the
\* listener message whose update issued the request.
OutcomeFrames ==
    {i \in 1..Len(stack) : stack[i].kind = "update_system" /\ stack[i].el = <<>>}

C27_OutcomeKeyPath ==
    \A i \in OutcomeFrames :
        /\ stack[i].keys = <<>>
        /\ state[stack[i].msg].keys = <<>>

\* The listener of a keyed item issued the request; its outcome is applied.
C27_Witness ==
    \E i \in OutcomeFrames :
        /\ stack[i].msg = 2
        /\ state[1].keys = <<1>>
        /\ \E r \in 1..Len(host.xhr) :
              host.xhr[r].results \in {<<"Ok">>, <<"Timeout">>, <<"NetworkError">>}

\* C28: when a pass is over the occupied slots of the handle pool are one for
\* the root element, one for every node of the rendered tree and one for
\* every listener declared in it; the handles held (the root's, the nodes',
\* the listeners') are pairwise distinct occupied slots, and every other slot
\* that was ever allocated is free again.
RECURSIVE SumOver(_, _)
SumOver(F(_), q) == IF q = <<>> THEN 0 ELSE F(Head(q)) + SumOver(F, Tail(q))

RECURSIVE NodeCount(_)
NodeCount(node) == 1 + SumOver(NodeCount, node.children)

RECURSIVE ListenerCount(_)
ListenerCount(node) == Len(node.listeners) + SumOver(ListenerCount, node.children)

Occupied(h) == {i \in 1..Len(h.pool) : h.pool[i] # "deleted"}

ListenerHandles(vd) == UNION {{l.el : l \in Range(vd[id].listeners)} : id \in DOMAIN vd}

HandlesHeld(vd) == (DOMAIN vd) \cup ListenerHandles(vd)

C28_BoundedResources ==
    PassDone =>
        /\ Cardinality(Occupied(host))
               = 1 + NodeCount(rendered) + ListenerCount(rendered)
        /\ {i - 1 : i \in Occupied(host)} = HandlesHeld(vdom)
        /\ (DOMAIN vdom) \cap ListenerHandles(vdom) = {}
        /\ \A a, b \in DOMAIN vdom :
              /\ \A i \in 1..Len(vdom[a].listeners), j \in 1..Len(vdom[b].listeners) :
                    (a # b \/ i # j)
                        => vdom[a].listeners[i].el # vdom[b].listeners[j].el
              /\ \A i \in 1..Len(vdom[a].children), j \in 1..Len(vdom[b].children) :
                    (a # b \/ i # j) => vdom[a].children[i] # vdom[b].children[j]
        /\ Range(host.free) \cap {i - 1 : i \in Occupied(host)} = {}

\* C29: run empties the target element, then makes one pass of the initial
\* tree over an empty root level, in which every node is created and none
\* reused; when that pass is over the children of the target element are the
\* rendered tree (values, properties, listeners, children, in order); and no
\* message is applied before that pass is over.
RECURSIVE HostIs(_, _)
HostIs(id, node) ==
    /\ host.dom[id].value = node.value
    /\ host.dom[id].props = HostProps(node.attributes)
    /\ [j \in 1..Len(host.dom[id].listeners) |->
           On(host.dom[id].listeners[j].ptr, host.dom[id].listeners[j].ev)]
           = node.listeners
    /\ Len(host.dom[id].children) = Len(node.children)
    /\ \A k \in 1..Len(node.children) :
          HostIs(host.dom[id].children[k], node.children[k])

InRun == stack # <<>> /\ stack[1].kind = "run"

C29_InitialRender ==
    /\ pass.n >= 1 => Range(Foreign(MaxForeign)) \cap DOMAIN host.dom = {}
    /\ pass.n = 1 => pass.pre[RootId].children = <<>>
    /\ InRun =>
          /\ state = <<>>
          /\ pass.n = 1
          /\ pass.reused = {}
          /\ \A i \in Reconciling : stack[i].vnode_index = <<>>
          /\ (DOMAIN vdom) \ {RootId} \subseteq CreatedNow
    /\ (pass.n = 1 /\ (PassDone \/ (InRun /\ Len(stack) = 2 /\ Top.i > Len(Top.nodes)))) =>
          /\ Len(host.dom[RootId].children) = 1
          /\ HostIs(host.dom[RootId].children[1], rendered)
          /\ host.dom[RootId].children = vdom[RootId].children

\* C30: when a cycle is over, every callback registered on an element of the
\* document calls a listener of the rendered tree the driver keeps: its
\* address and event type are those of a listener declared in that tree.
RECURSIVE TreeListeners(_)
TreeListeners(node) ==
    ListenerPairs(node.listeners)
        \cup UNION {TreeListeners(node.children[k]) : k \in 1..Len(node.children)}

C30_NoDanglingHandlers ==
    PassDone =>
        \A e \in Below(host.dom, RootId) :
            \A cb \in Range(host.dom[e].listeners) :
                <<cb.ptr, cb.ev>> \in TreeListeners(rendered)

\* C31: in the passes of serialized cycles every insertChild is called with
\* an index at most the number of children the host parent has at the call,
\* every moveChild with an old index below that number and a new index below
\* the old one, and the program never stops on an index check.
NewCalls ==
    IF Len(host'.calls) >= Len(host.calls)
       /\ SubSeq(host'.calls, 1, Len(host.calls)) = host.calls
    THEN (Len(host.calls) + 1)..Len(host'.calls)
    ELSE 1..Len(host'.calls)

InRange(c) ==
    CASE c.op = "insertChild" ->
             /\ c.arg[1] >= 0
             /\ c.arg[1] <= Len(host.dom[c.el].children)
      [] c.op = "moveChild" ->
             /\ c.arg[1] < Len(host.dom[c.el].children)
             /\ c.arg[2] >= 0
             /\ c.arg[2] < c.arg[1]
      [] OTHER -> TRUE

C31_IndexChecksUnreachable ==
    [][/\ panic' = "no"
       /\ \A k \in NewCalls : InRange(host'.calls[k])]_vars

\* A pass has moved a child from the last position to the front and has then
\* inserted another at the end of its parent's children.
C31_Witness ==
    /\ PassDone
    /\ pass.n > 1
    /\ \E c \in CallsOf({"insertChild"}) : host.calls[c].arg[1] = 2
    /\ \E c \in CallsOf({"moveChild"}) : host.calls[c].arg = <<1, 0>>

\* C32: a node is matched only with a child of the materialized node its
\* parent was matched with, and a node with no match there gets a new handle;
\* a keyed node rendered under another parent than before is created under
\* the new parent and its old materialized node is removed and dropped; no
\* host element ever has another host parent than the one it had.
Parents(h, id) == {e \in DOMAIN h.dom : id \in Range(h.dom[e].children)}

\* The keyed grandchild was under child a of the root and is now under child b.
Reparented(a, b) ==
    /\ SameRoot
    /\ Len(pass.prev.children) = 2
    /\ Len(rendered.children) = 2
    /\ pass.prev.children[a].children = <<Grand>>
    /\ pass.prev.children[b].children = <<>>
    /\ rendered.children[a].children = <<>>
    /\ rendered.children[b].children = <<Grand>>
    /\ pass.prev.children[a].value = rendered.children[a].value
    /\ pass.prev.children[b].value = rendered.children[b].value

C32_Matching ==
    /\ \A i \in Reconciling :
          LET parent == stack[i - 1].parent
          IN  IF stack[i].vnode_index # <<>>
              THEN /\ parent \in DOMAIN pass.pre
                   /\ parent \notin CreatedNow
                   /\ stack[i].vnode \in Range(pass.pre[parent].children)
              ELSE stack[i].vnode \in CreatedNow
    /\ \A a, b \in 1..2 :
          (PassDone /\ a # b /\ Reparented(a, b)) =>
              LET rid == RootNode(vdom)
                  old == pass.pre[pass.pre[rid].children[a]].children[1]
                  new == vdom[vdom[rid].children[b]].children[1]
              IN  /\ vdom[rid].children = pass.pre[rid].children
                  /\ vdom[vdom[rid].children[a]].children = <<>>
                  /\ host.dom[vdom[rid].children[a]].children = <<>>
                  /\ new \in CreatedNow
                  /\ new \notin pass.reused
                  /\ old \notin pass.reused
                  /\ old \in CreatedNow \/ old \notin DOMAIN vdom
                  /\ \E c \in CallsOf({"removeChild"}) : host.calls[c].el = old
                  /\ host.dom[vdom[rid].children[b]].children = <<new>>

C32_ParentKept ==
    \A id \in (DOMAIN host.dom) \cap (DOMAIN host'.dom) :
        /\ Cardinality(Parents(host', id)) <= 1
        /\ (Parents(host, id) # {} /\ Parents(host', id) # {})
              => Parents(host', id) = Parents(host, id)

C32_NoCrossParentReuse == [][C32_Matching' /\ C32_ParentKept]_vars

C32_Witness ==
    /\ PassDone
    /\ \E a, b \in 1..2 : a # b /\ Reparented(a, b)
    /\ CallsOf({"removeChild"}) # {}
    /\ CallsOf({"createElement"}) # {}

\* C33: delivering a timeout or a network error reads no response field: the
\* program never stops, or goes on undefined, on the null status text, body
\* or headers of such an outcome; every outcome delivered is Ok, Timeout or
\* NetworkError, and each timeout or error delivered gives its Err result.
C33_NoResponseFieldRead ==
    /\ panic # "undefined"
    /\ \A r \in 1..Len(host.xhr) :
          /\ Range(host.xhr[r].results) \subseteq {"Ok", "Timeout", "NetworkError"}
          /\ host.xhr[r].done => host.xhr[r].results # <<>>

====
